---- MODULE Spec2Model ----
(***************************************************************************)
(* Fruit Counter (EarthMoonTransit/practice): the request store of        *)
(* app/db.py, the detector adapter of app/model.py and the upload         *)
(* pipeline of app/main.py, as a state machine.                           *)
(*                                                                        *)
(* Two specifications share the variables:                                *)
(*   Spec       the web application: process_image coroutines on the one  *)
(*              event loop (async def), index/report handlers on          *)
(*              threadpool threads (def);                                 *)
(*   SpecStore  the db module under concurrent clients that call          *)
(*              insert_request and the read queries directly.             *)
(***************************************************************************)
EXTENDS Integers, Sequences, FiniteSets, TLC

\* ------------------------------------------------------------------ bounds
MaxReq == 2        \* process_image requests in flight
MaxRows == 2       \* insert_request calls started by store clients
MaxClients == 2    \* concurrent store clients
MaxLimit == 2      \* largest limit passed to fetch_recent
MaxDet == 2        \* boxes the detector returns for one image

None == [t |-> "None"]
EmptyMap == [k \in {} |-> 0]

Requests == 1..MaxReq
Clients == 101..(100 + MaxClients)

Min(a, b) == IF a < b THEN a ELSE b

\* ----------------------------------------------------------------- state
VARIABLES
    pc,               \* where each task is in its handler
    started,          \* insert_request calls the store clients have made
    table,            \* the committed rows of table requests
    seqno,            \* sqlite_sequence: the largest id ever committed
    dbWriter,         \* the caller whose connection holds the write lock, or 0
    pending,          \* each caller's uncommitted row
    returned,         \* the ids insert_request has returned
    completed,        \* the insert_request calls that have returned
    lastRead,         \* the latest read query and its result since the last commit
    loop,             \* the coroutine the event loop is running, or 0
    upload,           \* each request's UploadFile: filename, size, whether it verifies
    err,              \* each request's error message
    uploads,          \* the staged files in UPLOAD_DIR, by the request that wrote them
    outputs,          \* the annotated images in OUTPUT_DIR
    res,              \* each request's boxes, counts, total and request_id
    ctx,              \* each task's _build_context reads so far
    mdl,              \* model._model
    fruit_class_ids,  \* model._fruit_class_ids
    supported,        \* model._supported
    supported_fruits, \* what get_supported_fruits returned last
    nInit             \* how often each lazy initialisation has run

storeVars == <<table, seqno, dbWriter, pending, returned, completed, lastRead>>
appVars == <<loop, upload, err, uploads, outputs, res, ctx>>
detVars == <<mdl, fruit_class_ids, supported, supported_fruits, nInit>>
vars == <<pc, started, storeVars, appVars, detVars>>

\* ------------------------------------------------------ Python values, JSON
\* A Python value handed to insert_request as `counts`, or found in a decoded
\* counts_json: an int, a str that is no number, a dict, a list.
PyInt(n) == [t |-> "int", v |-> n]
PyStr == [t |-> "str", v |-> 0]
PyDict(f) == [t |-> "dict", d |-> f]
PyList == [t |-> "list", d |-> EmptyMap]

\* JSON text, by its structure: an object with members, an array, a number, a
\* string; kind "garbage" is TEXT that is no JSON document (json.dumps writes
\* none).

json_dumps(val) ==
    CASE val.t = "dict" ->
           [k |-> "object",
            m |-> [key \in DOMAIN val.d |->
                     IF val.d[key].t = "int"
                     THEN [k |-> "number", v |-> val.d[key].v]
                     ELSE [k |-> "string", v |-> 0]],
            v |-> 0]
      [] val.t = "list" -> [k |-> "array", m |-> EmptyMap, v |-> 0]
      [] val.t = "int" -> [k |-> "number", m |-> EmptyMap, v |-> val.v]
      [] OTHER -> [k |-> "string", m |-> EmptyMap, v |-> 0]

\* json.loads: the decoded value, or JSONDecodeError.
json_loads(text) ==
    CASE text.k = "garbage" -> [err |-> "JSONDecodeError", val |-> None]
      [] text.k = "object" ->
           [err |-> "none",
            val |-> PyDict([key \in DOMAIN text.m |->
                              IF text.m[key].k = "number"
                              THEN PyInt(text.m[key].v) ELSE PyStr])]
      [] text.k = "array" -> [err |-> "none", val |-> PyList]
      [] text.k = "number" -> [err |-> "none", val |-> PyInt(text.v)]
      [] OTHER -> [err |-> "none", val |-> PyStr]

\* ------------------------------------------------------------- the store
RECURSIVE SumTotal(_)
SumTotal(S) ==
    IF S = {} THEN 0
    ELSE LET r == CHOOSE x \in S : TRUE IN r.total_count + SumTotal(S \ {r})

RECURSIVE OrderByIdDesc(_)
OrderByIdDesc(S) ==
    IF S = {} THEN <<>>
    ELSE LET r == CHOOSE x \in S : \A y \in S : y.id <= x.id
         IN <<r>> \o OrderByIdDesc(S \ {r})

\* Mutant: LIMIT takes one row too many.
LimitOffByOne(s, n) == IF n < 0 THEN s ELSE SubSeq(s, 1, Min(n + 1, Len(s)))

\* LIMIT n of SQLite: a negative n is no limit.
Limit(s, n) == IF n < 0 THEN s ELSE SubSeq(s, 1, Min(n, Len(s)))

fetch_all(tbl) == OrderByIdDesc(tbl)

fetch_recent(limit, tbl) == Limit(OrderByIdDesc(tbl), limit)

\* Mutant: the average by integer division.
AvgTruncated(S) == [num |-> SumTotal(S) \div Cardinality(S), den |-> 1]

\* AVG is a float: kept as the exact quotient num/den.
Avg(S) == [num |-> SumTotal(S), den |-> Cardinality(S)]

get_summary(tbl) ==
    [total_requests |-> Cardinality(tbl),
     total_fruits |-> IF tbl = {} THEN 0 ELSE SumTotal(tbl),
     avg_per_request |-> IF tbl = {} THEN [num |-> 0, den |-> 1] ELSE Avg(tbl)]

\* Mutant: totals[key] = int(value), the earlier rows' counts overwritten.
AddItemsOverwrite(totals, d) ==
    IF \E key \in DOMAIN d : d[key].t # "int"
    THEN [exc |-> "ValueError", totals |-> totals]
    ELSE [exc |-> "none",
          totals |-> [key \in DOMAIN totals \cup DOMAIN d |->
                        IF key \in DOMAIN d THEN d[key].v ELSE totals[key]]]

\* totals[key] = totals.get(key, 0) + int(value) for every item of one dict;
\* int() of a str that is no number raises ValueError.
AddItems(totals, d) ==
    IF \E key \in DOMAIN d : d[key].t # "int"
    THEN [exc |-> "ValueError", totals |-> totals]
    ELSE [exc |-> "none",
          totals |-> [key \in DOMAIN totals \cup DOMAIN d |->
                        (IF key \in DOMAIN totals THEN totals[key] ELSE 0)
                        + (IF key \in DOMAIN d THEN d[key].v ELSE 0)]]

\* One pass of the for loop of get_counts_by_class over fetch_all's rows.
RECURSIVE Aggregate(_, _, _)
Aggregate(rs, i, totals) ==
    IF i > Len(rs) THEN [exc |-> "none", totals |-> totals]
    ELSE LET dec == json_loads(rs[i].counts_json)
             counts == IF dec.err = "JSONDecodeError" THEN PyDict(EmptyMap) ELSE dec.val
         IN IF counts.t # "dict"
            THEN [exc |-> "AttributeError", totals |-> totals]
            ELSE LET step == AddItems(totals, counts.d)
                 IN IF step.exc # "none" THEN step
                    ELSE Aggregate(rs, i + 1, step.totals)

\* Mutant: totals is a dict shared by all calls (a mutable default), so a
\* second call adds to the first call's totals.
get_counts_by_class_shared(tbl) ==
    Aggregate(fetch_all(tbl), 1,
              IF lastRead # None /\ lastRead.op = "get_counts_by_class"
              THEN lastRead.result.totals ELSE EmptyMap)

get_counts_by_class(tbl) == Aggregate(fetch_all(tbl), 1, EmptyMap)

\* --------------------------------------------------------- the detector
FRUIT_CLASSES == {"apple", "banana", "orange"}

\* str.lower() on the class names and the suffixes that occur.
Lower(name) ==
    CASE name = "Apple pie" -> "apple pie"
      [] name = ".PNG" -> ".png"
      [] name = ".GIF" -> ".gif"
      [] OTHER -> name

\* model.names of the weights YOLO(MODEL_NAME) finds: class id -> name.  The
\* shipped yolov8n.pt has the COCO names (of its 80, the ones kept here);
\* other weights under that file name may have no fruit class at all.
CocoNames == (0 :> "person") @@ (47 :> "apple")
NoFruitNames == (0 :> "person") @@ (1 :> "Apple pie")
DetectorNames == {CocoNames, NoFruitNames}
Loaded(names) == [t |-> "YOLO", names |-> names]

\* A class id the detector may report that result.names does not hold.
UnknownId == 999

\* The list comprehension of _get_fruit_class_ids.
FruitIds(names) == {cls_id \in DOMAIN names : Lower(names[cls_id]) \in FRUIT_CLASSES}

\* sorted(supported) of get_supported_fruits: the set of lower-cased fruit names.
SupportedOf(names) == {Lower(names[i]) : i \in {j \in DOMAIN names : Lower(names[j]) \in FRUIT_CLASSES}}

\* Mutant: the detector is always called with classes=fruit_ids.
ClassesAlways(fruit_ids) == [t |-> "list", ids |-> fruit_ids]

\* if fruit_ids: the call passes classes=fruit_ids; else: it passes no classes.
Classes(fruit_ids) ==
    IF fruit_ids # {} THEN [t |-> "list", ids |-> fruit_ids] ELSE None

\* The class ids the detector can put in result.boxes.cls: those of `classes`
\* when restricted, any id (known or not) when unrestricted.
DetectableIds(names, classes) ==
    IF classes # None THEN classes.ids ELSE DOMAIN names \cup {UnknownId}

\* result.boxes.cls.tolist(): at most MaxDet boxes.
Detections(ids) == UNION {[1..n -> ids] : n \in 0..MaxDet}

\* names.get(int(cls_id), "unknown"), lower-cased.
KeyOf(names, cls_id) == IF cls_id \in DOMAIN names THEN Lower(names[cls_id]) ELSE "unknown"

\* Mutant: every detection is counted, whatever its class.
CountedAny(key) == TRUE

\* if key in FRUIT_CLASSES
Counted(key) == key \in FRUIT_CLASSES

\* counts[key] = counts.get(key, 0) + 1
Bump(counts, key) ==
    [k \in DOMAIN counts \cup {key} |->
        (IF k \in DOMAIN counts THEN counts[k] ELSE 0) + (IF k = key THEN 1 ELSE 0)]

\* The loop of run_detection over the boxes.
RECURSIVE CountBoxes(_, _, _, _)
CountBoxes(names, cls, i, counts) ==
    IF i > Len(cls) THEN counts
    ELSE LET key == KeyOf(names, cls[i])
         IN CountBoxes(names, cls, i + 1,
                       IF Counted(key) THEN Bump(counts, key) ELSE counts)

RECURSIVE SumValues(_)
SumValues(f) ==
    IF DOMAIN f = {} THEN 0
    ELSE LET k == CHOOSE x \in DOMAIN f : TRUE
         IN f[k] + SumValues([y \in DOMAIN f \ {k} |-> f[y]])

\* Mutant: total = len(counts), the number of classes found.
TotalOfKeys(counts) == Cardinality(DOMAIN counts)

\* total = sum(counts.values())
TotalOf(counts) == SumValues(counts)

\* The counts dict of run_detection as the Python value insert_request gets.
AsPyDict(counts) == PyDict([k \in DOMAIN counts |-> PyInt(counts[k])])

\* ------------------------------------------------------------ validation
MAX_FILE_MB == 20
ALLOWED_EXTENSIONS == {".jpg", ".jpeg", ".png"}

NoName == "<None>"
FileNames == {"photo.PNG", "anim.gif", "anim.GIF"}

\* Path(filename).suffix
Suffix(name) ==
    CASE name = "photo.PNG" -> ".PNG"
      [] name = "anim.gif" -> ".gif"
      [] name = "anim.GIF" -> ".GIF"
      [] OTHER -> ""

\* Mutant: the suffix is compared as it is written.
ExtAllowedCaseSensitive(name) == Suffix(name) \in ALLOWED_EXTENSIONS

\* ext = Path(image.filename).suffix.lower(); ext in ALLOWED_EXTENSIONS
ExtAllowed(name) == Lower(Suffix(name)) \in ALLOWED_EXTENSIONS

\* len(contents) of the uploads tried: the largest allowed, and one byte more.
Sizes == {MAX_FILE_MB * 1024 * 1024, MAX_FILE_MB * 1024 * 1024 + 1}
TooBig(size) == size > MAX_FILE_MB * 1024 * 1024

\* ----------------------------------------------------------------- tasks
Views == {201}
Tasks == Requests \cup Clients \cup Views
Callers == Requests \cup Clients

NoUpload == [name |-> NoName, size |-> 0, valid |-> FALSE]
NoCtx == [handler |-> "none", summary |-> None, counts_by_class |-> None, recent |-> None]

Init ==
    /\ pc = [t \in Tasks |-> IF t \in Requests THEN "new" ELSE "idle"]
    /\ started = 0
    /\ table = {}
    /\ seqno = 0
    /\ dbWriter = 0
    /\ pending = [c \in Callers |-> None]
    /\ returned = {}
    /\ completed = 0
    /\ lastRead = None
    /\ loop = 0
    /\ upload = [r \in Requests |-> NoUpload]
    /\ err = [r \in Requests |-> "none"]
    /\ uploads = {}
    /\ outputs = {}
    /\ res = [r \in Requests |-> None]
    /\ ctx = [t \in Requests \cup Views |-> NoCtx]
    /\ mdl = None
    /\ fruit_class_ids = None
    /\ supported = None
    /\ supported_fruits = None
    /\ nInit = [model |-> 0, ids |-> 0, sup |-> 0]

\* ------------------------------------------------------- insert_request
\* Mutant: no write lock, two connections insert at once.
CanWriteUnlocked(c) == TRUE

\* SQLite lets one connection at a time hold the write lock (RESERVED): the
\* INSERT of a second connection waits for it.
CanWrite(c) == dbWriter = 0

\* AUTOINCREMENT: one more than the largest id the table ever held.
NextId == seqno + 1

\* conn.execute(INSERT ...): the row is written under the write lock, not yet
\* committed.
InsertExecute(c, filename, counts, total_count) ==
    /\ CanWrite(c)
    /\ dbWriter' = c
    /\ pending' = [pending EXCEPT ![c] =
                     [id |-> NextId, filename |-> filename,
                      counts_json |-> json_dumps(counts),
                      total_count |-> total_count, by |-> c]]
    /\ UNCHANGED <<table, seqno, returned, completed, lastRead>>

\* Mutant: the INSERT runs twice, the row is stored under two ids.
InsertCommitTwice(c) ==
    /\ pending[c] # None
    /\ table' = table \cup {pending[c], [pending[c] EXCEPT !.id = @ + 1]}
    /\ seqno' = pending[c].id + 1
    /\ dbWriter' = IF dbWriter = c THEN 0 ELSE dbWriter
    /\ lastRead' = None
    /\ UNCHANGED <<pending, returned, completed>>

\* conn.commit(): the row becomes visible, the lock is released.
InsertCommit(c) ==
    /\ pending[c] # None
    /\ table' = table \cup {pending[c]}
    /\ seqno' = pending[c].id
    /\ dbWriter' = IF dbWriter = c THEN 0 ELSE dbWriter
    /\ lastRead' = None
    /\ UNCHANGED <<pending, returned, completed>>

\* return int(cur.lastrowid)
InsertReturn(c) ==
    /\ returned' = returned \cup {pending[c].id}
    /\ completed' = completed + 1
    /\ pending' = [pending EXCEPT ![c] = None]
    /\ UNCHANGED <<table, seqno, dbWriter, lastRead>>

\* ----------------------------------------------------- the store clients
\* What the clients pass as (counts, total_count): the three records of the
\* scenario of the specification, a zero-valued key, and two values that are
\* no Dict[str, int].
ClientArgs ==
    { [counts |-> PyDict(("apple" :> PyInt(2))), total |-> 2],
      [counts |-> PyDict(("banana" :> PyInt(1)) @@ ("apple" :> PyInt(1))), total |-> 2],
      [counts |-> PyDict(EmptyMap), total |-> 0],
      [counts |-> PyDict(("orange" :> PyInt(0))), total |-> 0],
      [counts |-> PyDict(("apple" :> PyStr)), total |-> 1],
      [counts |-> PyList, total |-> 1] }

ClientInsert(c) ==
    /\ pc[c] = "idle"
    /\ started < MaxRows
    /\ \E a \in ClientArgs : InsertExecute(c, "direct", a.counts, a.total)
    /\ started' = started + 1
    /\ pc' = [pc EXCEPT ![c] = "commit"]
    /\ UNCHANGED <<appVars, detVars>>

\* The write lock stays taken for the whole busy timeout: sqlite3 raises
\* OperationalError (database is locked) and nothing is written.
ClientInsertBusy(c) ==
    /\ pc[c] = "idle"
    /\ started < MaxRows
    /\ ~CanWrite(c)
    /\ started' = started + 1
    /\ UNCHANGED <<pc, storeVars, appVars, detVars>>

ClientCommit(c) ==
    /\ pc[c] = "commit"
    /\ InsertCommit(c)
    /\ pc' = [pc EXCEPT ![c] = "return"]
    /\ UNCHANGED <<started, appVars, detVars>>

ClientReturn(c) ==
    /\ pc[c] = "return"
    /\ InsertReturn(c)
    /\ pc' = [pc EXCEPT ![c] = "idle"]
    /\ UNCHANGED <<started, appVars, detVars>>

\* The read queries: each is one SELECT over the committed rows.
Limits == (-1)..MaxLimit

ReadQuery(op, arg) ==
    CASE op = "get_summary" -> get_summary(table)
      [] op = "get_counts_by_class" -> get_counts_by_class(table)
      [] op = "fetch_recent" -> fetch_recent(arg, table)
      [] OTHER -> fetch_all(table)

\* nth: 2 when the same query was also the one before, with no commit between.
Read(op, arg) ==
    /\ lastRead' = [op |-> op, arg |-> arg, result |-> ReadQuery(op, arg),
                    nth |-> IF lastRead # None /\ lastRead.op = op /\ lastRead.arg = arg
                            THEN 2 ELSE 1]
    /\ UNCHANGED <<table, seqno, dbWriter, pending, returned, completed>>

ClientRead ==
    /\ \/ Read("get_summary", 0)
       \/ Read("get_counts_by_class", 0)
       \/ \E n \in Limits : Read("fetch_recent", n)
       \/ Read("fetch_all", 0)
    /\ UNCHANGED <<pc, started, appVars, detVars>>

NextStore ==
    \/ \E c \in Clients : ClientInsert(c)
    \/ \E c \in Clients : ClientInsertBusy(c)
    \/ \E c \in Clients : ClientCommit(c)
    \/ \E c \in Clients : ClientReturn(c)
    \/ ClientRead

SpecStore == Init /\ [][NextStore]_vars

\* ------------------------------------------------------ process_image
\* Mutant: init_db drops and recreates the table.
init_db_recreate(tbl) == {}

\* init_db: CREATE TABLE IF NOT EXISTS leaves an existing table as it is.
init_db(tbl) == tbl

\* Mutant: the rejected upload is left in UPLOAD_DIR.
UnlinkSkipped(files, r) == files

\* upload_path.unlink(missing_ok=True)
Unlink(files, r) == files \ {r}

\* process_image is a coroutine (async def): between two awaits it is the one
\* the event loop runs.  index and get_report are plain functions, which the
\* framework runs on threadpool threads.
Running(t) == t \in Requests => loop = t

\* An exception leaves the coroutine: the framework answers 500, the event
\* loop goes on to the next coroutine and the handler's locals are gone.
Raise(r) ==
    /\ pc' = [pc EXCEPT ![r] = "failed"]
    /\ loop' = 0
    /\ upload' = [upload EXCEPT ![r] = NoUpload]
    /\ res' = [res EXCEPT ![r] = None]
    /\ ctx' = [ctx EXCEPT ![r] = NoCtx]

\* The handler starts: the filename and extension checks, up to await.
Start(r) ==
    /\ pc[r] = "new"
    /\ loop = 0
    /\ \E name \in FileNames \cup {NoName} :
        /\ upload' = [upload EXCEPT ![r].name = name]
        /\ IF name = NoName
           THEN /\ err' = [err EXCEPT ![r] = "no_file"]
                /\ pc' = [pc EXCEPT ![r] = "ctx_summary"]
                /\ loop' = r
           ELSE IF ~ExtAllowed(name)
           THEN /\ err' = [err EXCEPT ![r] = "bad_ext"]
                /\ pc' = [pc EXCEPT ![r] = "ctx_summary"]
                /\ loop' = r
           ELSE /\ pc' = [pc EXCEPT ![r] = "read"]
                /\ loop' = 0
                /\ err' = err
    /\ ctx' = [ctx EXCEPT ![r].handler = "process"]
    /\ UNCHANGED <<started, storeVars, uploads, outputs, res, detVars>>

\* contents = await image.read(); the size check; the staged file is written.
ReadUpload(r) ==
    /\ pc[r] = "read"
    /\ loop = 0
    /\ loop' = r
    /\ \E size \in Sizes, valid \in BOOLEAN :
        /\ upload' = [upload EXCEPT ![r].size = size,
                                    ![r].valid = valid /\ ~TooBig(size)]
        /\ IF TooBig(size)
           THEN /\ err' = [err EXCEPT ![r] = "too_big"]
                /\ pc' = [pc EXCEPT ![r] = "ctx_summary"]
                /\ uploads' = uploads
           ELSE /\ uploads' = uploads \cup {r}
                /\ pc' = [pc EXCEPT ![r] = "verify"]
                /\ err' = err
    /\ UNCHANGED <<started, storeVars, outputs, res, ctx, detVars>>

\* Image.open(upload_path) and img.verify(); any exception rejects the upload.
Verify(r) ==
    /\ pc[r] = "verify"
    /\ Running(r)
    /\ IF upload[r].valid
       THEN /\ pc' = [pc EXCEPT ![r] = "load"]
            /\ UNCHANGED <<err, uploads>>
       ELSE /\ uploads' = Unlink(uploads, r)
            /\ err' = [err EXCEPT ![r] = "not_image"]
            /\ pc' = [pc EXCEPT ![r] = "ctx_summary"]
    /\ UNCHANGED <<started, storeVars, loop, upload, outputs, res, ctx, detVars>>

\* ------------------------------------------------------- run_detection
\* load_model: if _model is None
LoadCheck(r) ==
    /\ pc[r] = "load"
    /\ Running(r)
    /\ pc' = [pc EXCEPT ![r] = IF mdl = None THEN "load_init" ELSE "ids"]
    /\ UNCHANGED <<started, storeVars, appVars, detVars>>

\* Mutant: the detector that failed to load is cached as a detector without
\* classes.
LoadFailedCached(m) == Loaded(EmptyMap)

\* _model = YOLO(MODEL_NAME) when YOLO raises: nothing is assigned.
LoadFailed(m) == m

\* load_model: _model = YOLO(MODEL_NAME), which may raise.
LoadInit(r) ==
    /\ pc[r] = "load_init"
    /\ Running(r)
    /\ \/ /\ \E names \in DetectorNames : mdl' = Loaded(names)
          /\ nInit' = [nInit EXCEPT !.model = @ + 1]
          /\ pc' = [pc EXCEPT ![r] = "ids"]
          /\ loop' = loop
          /\ UNCHANGED <<upload, res, ctx>>
       \/ /\ Raise(r)
          /\ mdl' = LoadFailed(mdl)
          /\ UNCHANGED nInit
    /\ UNCHANGED <<started, storeVars, err, uploads, outputs, fruit_class_ids, supported,
                   supported_fruits>>

\* _get_fruit_class_ids: if _fruit_class_ids is None
IdsCheck(r) ==
    /\ pc[r] = "ids"
    /\ Running(r)
    /\ pc' = [pc EXCEPT ![r] = IF fruit_class_ids = None THEN "ids_init" ELSE "infer"]
    /\ UNCHANGED <<started, storeVars, appVars, detVars>>

\* _get_fruit_class_ids: model = load_model(), then the ids are resolved from
\* model.names and cached.
IdsInit(r) ==
    /\ pc[r] = "ids_init"
    /\ Running(r)
    /\ \E m \in (IF mdl = None THEN {Loaded(names) : names \in DetectorNames} ELSE {mdl}) :
        /\ mdl' = m
        /\ fruit_class_ids' = [t |-> "list", ids |-> FruitIds(m.names)]
    /\ nInit' = [nInit EXCEPT !.model = (IF mdl = None THEN @ + 1 ELSE @),
                              !.ids = @ + 1]
    /\ pc' = [pc EXCEPT ![r] = "infer"]
    /\ UNCHANGED <<started, storeVars, appVars, supported, supported_fruits>>

\* results = model(...): the detector is called.
InferCall(r) ==
    /\ pc[r] = "infer"
    /\ Running(r)
    /\ pc' = [pc EXCEPT ![r] = "inferring"]
    /\ res' = [res EXCEPT ![r] =
                 [classes |-> Classes(fruit_class_ids.ids), cls |-> <<>>,
                  counts |-> EmptyMap, total |-> 0, request_id |-> 0]]
    /\ UNCHANGED <<started, storeVars, loop, upload, err, uploads, outputs, ctx, detVars>>

\* The detector returns result.boxes.cls, or raises.
InferReturn(r) ==
    /\ pc[r] = "inferring"
    /\ Running(r)
    /\ \/ /\ \E cls \in Detections(DetectableIds(mdl.names, res[r].classes)) :
               res' = [res EXCEPT ![r].cls = cls]
          /\ pc' = [pc EXCEPT ![r] = "count"]
          /\ UNCHANGED <<loop, upload, ctx>>
       \/ Raise(r)
    /\ UNCHANGED <<started, storeVars, err, uploads, outputs, detVars>>

\* The boxes are counted by class name; run_detection returns counts and total.
CountDetections(r) ==
    /\ pc[r] = "count"
    /\ Running(r)
    /\ LET counts == CountBoxes(mdl.names, res[r].cls, 1, EmptyMap)
       IN res' = [res EXCEPT ![r].counts = counts, ![r].total = TotalOf(counts)]
    /\ pc' = [pc EXCEPT ![r] = "save"]
    /\ UNCHANGED <<started, storeVars, loop, upload, err, uploads, outputs, ctx, detVars>>

\* annotated_image.save(output_path); the boxes are only in the saved image
\* from here on.
Save(r) ==
    /\ pc[r] = "save"
    /\ Running(r)
    /\ outputs' = outputs \cup {r}
    /\ res' = [res EXCEPT ![r].cls = <<>>]
    /\ pc' = [pc EXCEPT ![r] = "insert"]
    /\ UNCHANGED <<started, storeVars, loop, upload, err, uploads, ctx, detVars>>

\* db.insert_request(...), in its three steps.
ReqInsert(r) ==
    /\ pc[r] = "insert"
    /\ Running(r)
    /\ InsertExecute(r, upload[r].name, AsPyDict(res[r].counts), res[r].total)
    /\ pc' = [pc EXCEPT ![r] = "commit"]
    /\ UNCHANGED <<started, appVars, detVars>>

ReqCommit(r) ==
    /\ pc[r] = "commit"
    /\ Running(r)
    /\ InsertCommit(r)
    /\ pc' = [pc EXCEPT ![r] = "return"]
    /\ UNCHANGED <<started, appVars, detVars>>

ReqReturn(r) ==
    /\ pc[r] = "return"
    /\ Running(r)
    /\ res' = [res EXCEPT ![r].request_id = pending[r].id]
    /\ InsertReturn(r)
    /\ pc' = [pc EXCEPT ![r] = "ctx_summary"]
    /\ UNCHANGED <<started, loop, upload, err, uploads, outputs, ctx, detVars>>

\* ------------------------------------------------------- _build_context
\* The context is built and the response rendered: a coroutine leaves the
\* event loop, a threadpool thread is free for the next request.
Finish(t) ==
    /\ pc' = [pc EXCEPT ![t] = IF t \in Requests THEN "done" ELSE "idle"]
    /\ loop' = IF t \in Requests THEN 0 ELSE loop
    /\ ctx' = [ctx EXCEPT ![t] = NoCtx]
    /\ upload' = [r \in Requests |-> IF r = t THEN NoUpload ELSE upload[r]]
    /\ res' = [r \in Requests |-> IF r = t THEN None ELSE res[r]]

\* A threadpool thread takes GET / (index) or GET /report.pdf
\* (generate_report, which starts with init_db).
ViewStart(v) ==
    /\ pc[v] = "idle"
    /\ \E h \in {"index", "report"} :
        /\ ctx' = [ctx EXCEPT ![v].handler = h]
        /\ table' = IF h = "report" THEN init_db(table) ELSE table
    /\ pc' = [pc EXCEPT ![v] = "ctx_summary"]
    /\ UNCHANGED <<started, seqno, dbWriter, pending, returned, completed, lastRead,
                   loop, upload, err, uploads, outputs, res, detVars>>

CtxSummary(t) ==
    /\ pc[t] = "ctx_summary"
    /\ Running(t)
    /\ ctx' = [ctx EXCEPT ![t].summary = get_summary(table)]
    /\ pc' = [pc EXCEPT ![t] = "ctx_counts"]
    /\ UNCHANGED <<started, storeVars, loop, upload, err, uploads, outputs, res, detVars>>

CtxCounts(t) ==
    /\ pc[t] = "ctx_counts"
    /\ Running(t)
    /\ LET got == get_counts_by_class(table)
       IN IF got.exc = "none"
          THEN /\ ctx' = [ctx EXCEPT ![t].counts_by_class = got.totals]
               /\ pc' = [pc EXCEPT ![t] = "ctx_recent"]
               /\ loop' = loop
               /\ UNCHANGED <<upload, res>>
          ELSE /\ pc' = [pc EXCEPT ![t] = IF t \in Requests THEN "failed" ELSE "idle"]
               /\ loop' = IF t \in Requests THEN 0 ELSE loop
               /\ ctx' = [ctx EXCEPT ![t] = NoCtx]
               /\ upload' = [r \in Requests |-> IF r = t THEN NoUpload ELSE upload[r]]
               /\ res' = [r \in Requests |-> IF r = t THEN None ELSE res[r]]
    /\ UNCHANGED <<started, storeVars, err, uploads, outputs, detVars>>

\* db.fetch_recent(limit=10); generate_report is through with the store here.
CtxRecent(t) ==
    /\ pc[t] = "ctx_recent"
    /\ Running(t)
    /\ ctx' = [ctx EXCEPT ![t].recent = fetch_recent(10, table)]
    /\ pc' = [pc EXCEPT ![t] = IF ctx[t].handler = "report" THEN "built" ELSE "sup"]
    /\ UNCHANGED <<started, storeVars, loop, upload, err, uploads, outputs, res, detVars>>

\* return []
EmptyList == [t |-> "list", names |-> {}]

\* Mutant: every context is built with load_model_info=True.
AllowLoadAlways(t) == TRUE

\* load_model_info of the _build_context call: True only on the success path
\* of process_image.
AllowLoad(t) == t \in Requests /\ err[t] = "none"

\* get_supported_fruits: if _supported is None; if not allow_load and _model
\* is None: return [].
SupCheck(t) ==
    /\ pc[t] = "sup"
    /\ Running(t)
    /\ IF supported = None /\ (AllowLoad(t) \/ mdl # None)
       THEN /\ pc' = [pc EXCEPT ![t] = "sup_init"]
            /\ UNCHANGED <<loop, ctx, upload, res, supported_fruits>>
       ELSE /\ supported_fruits' = IF supported = None THEN EmptyList ELSE supported
            /\ Finish(t)
    /\ UNCHANGED <<started, storeVars, err, uploads, outputs, mdl, fruit_class_ids,
                   supported, nInit>>

\* get_supported_fruits: model = load_model(), then the list is computed from
\* model.names and cached.
SupInit(t) ==
    /\ pc[t] = "sup_init"
    /\ Running(t)
    /\ \E m \in (IF mdl = None THEN {Loaded(names) : names \in DetectorNames} ELSE {mdl}) :
        /\ mdl' = m
        /\ supported' = [t |-> "list", names |-> SupportedOf(m.names)]
    /\ supported_fruits' = supported'
    /\ nInit' = [nInit EXCEPT !.model = (IF mdl = None THEN @ + 1 ELSE @),
                              !.sup = @ + 1]
    /\ Finish(t)
    /\ UNCHANGED <<started, storeVars, err, uploads, outputs, fruit_class_ids>>

\* get_report: the PDF is written from the three reads.
Respond(t) ==
    /\ pc[t] = "built"
    /\ Running(t)
    /\ Finish(t)
    /\ UNCHANGED <<started, storeVars, err, uploads, outputs, detVars>>

Next ==
    \/ \E r \in Requests : Start(r)
    \/ \E r \in Requests : ReadUpload(r)
    \/ \E r \in Requests : Verify(r)
    \/ \E r \in Requests : LoadCheck(r)
    \/ \E r \in Requests : LoadInit(r)
    \/ \E r \in Requests : IdsCheck(r)
    \/ \E r \in Requests : IdsInit(r)
    \/ \E r \in Requests : InferCall(r)
    \/ \E r \in Requests : InferReturn(r)
    \/ \E r \in Requests : CountDetections(r)
    \/ \E r \in Requests : Save(r)
    \/ \E r \in Requests : ReqInsert(r)
    \/ \E r \in Requests : ReqCommit(r)
    \/ \E r \in Requests : ReqReturn(r)
    \/ \E v \in Views : ViewStart(v)
    \/ \E t \in Requests \cup Views : CtxSummary(t)
    \/ \E t \in Requests \cup Views : CtxCounts(t)
    \/ \E t \in Requests \cup Views : CtxRecent(t)
    \/ \E t \in Requests \cup Views : SupCheck(t)
    \/ \E t \in Requests \cup Views : SupInit(t)
    \/ \E v \in Views : Respond(v)

Spec == Init /\ [][Next]_vars

\* ------------------------------------------------- properties of the store
\* The counts a stored row holds, read as the specification reads them: a
\* missing key is zero.
RowCounts(r) == json_loads(r.counts_json).val

WellFormed(r) ==
    /\ json_loads(r.counts_json).err = "none"
    /\ RowCounts(r).t = "dict"
    /\ \A k \in DOMAIN RowCounts(r).d : RowCounts(r).d[k].t = "int"

CountOf(r, k) == IF k \in DOMAIN RowCounts(r).d THEN RowCounts(r).d[k].v ELSE 0

RowWithId(i) == CHOOSE r \in table : r.id = i

Ids == {r.id : r \in table}

RECURSIVE SumByInsertion(_, _)
SumByInsertion(i, f) ==
    IF i = 0 THEN 0
    ELSE (IF i \in Ids THEN f[RowWithId(i)] ELSE 0) + SumByInsertion(i - 1, f)

\* No insert has committed without having returned yet.
NoneCommittedUnreturned == \A c \in Callers : pending[c] = None \/ pending[c] \notin table

StrictlyDescending(s) == \A i \in 1..(Len(s) - 1) : s[i].id > s[i + 1].id

\* C2: get_summary returns total_requests = the number of completed inserts,
\* total_fruits = the sum of total_count over the persisted records, and
\* avg_per_request = total_fruits / total_requests, or 0 with no record.
C2_Summary ==
    (lastRead # None /\ lastRead.op = "get_summary") =>
        LET s == lastRead.result IN
        /\ NoneCommittedUnreturned => s.total_requests = completed
        /\ s.total_fruits = SumByInsertion(seqno, [r \in table |-> r.total_count])
        /\ s.total_requests > 0 =>
               s.avg_per_request.num * s.total_requests
                   = s.total_fruits * s.avg_per_request.den
        /\ s.total_requests = 0 =>
               /\ s.total_fruits = 0
               /\ s.avg_per_request.num = 0
               /\ s.avg_per_request.den # 0

C2_Witness ==
    /\ lastRead # None
    /\ lastRead.op = "get_summary"
    /\ completed = 2
    /\ lastRead.result.total_requests = 2
    /\ lastRead.result.total_fruits = 3

\* C3: over well-formed records get_counts_by_class returns exactly the
\* classes that some record has as a key, each with its sum over all records.
C3_CountsByClass ==
    (/\ lastRead # None
     /\ lastRead.op = "get_counts_by_class"
     /\ \A r \in table : WellFormed(r)) =>
        /\ lastRead.result.exc = "none"
        /\ DOMAIN lastRead.result.totals = UNION {DOMAIN RowCounts(r).d : r \in table}
        /\ \A k \in DOMAIN lastRead.result.totals :
               lastRead.result.totals[k]
                   = SumByInsertion(seqno, [r \in table |-> CountOf(r, k)])
        /\ table = {} => lastRead.result.totals = EmptyMap

C3_Witness ==
    /\ lastRead # None
    /\ lastRead.op = "get_counts_by_class"
    /\ \A r \in table : WellFormed(r)
    /\ Cardinality(table) = 2
    /\ DOMAIN lastRead.result.totals = {"apple", "banana"}
    /\ lastRead.result.totals["apple"] = 3

\* C4 (the claim as stated): with a corrupt record in the history
\* get_counts_by_class returns normally, the corrupt record counts as zero and
\* every other record is summed.
C4_CorruptSkipped ==
    (lastRead # None /\ lastRead.op = "get_counts_by_class") =>
        /\ lastRead.result.exc = "none"
        /\ \A k \in DOMAIN lastRead.result.totals :
               lastRead.result.totals[k]
                   = SumByInsertion(seqno, [r \in table |->
                                              IF WellFormed(r) THEN CountOf(r, k) ELSE 0])

\* C5: for a limit n >= 0 fetch_recent returns min(n, N) records, strictly
\* descending by id, the first ones of fetch_all; fetch_all returns every
\* record, strictly descending by id.
C5_RecentPrefix ==
    /\ (lastRead # None /\ lastRead.op = "fetch_recent" /\ lastRead.arg >= 0) =>
           /\ Len(lastRead.result) = Min(lastRead.arg, Cardinality(table))
           /\ StrictlyDescending(lastRead.result)
           /\ \A i \in 1..Len(lastRead.result) : lastRead.result[i] = fetch_all(table)[i]
           /\ \A i \in 1..Len(lastRead.result) :
                  \A r \in table : r.id > lastRead.result[i].id =>
                      \E j \in 1..(i - 1) : lastRead.result[j] = r
    /\ (lastRead # None /\ lastRead.op = "fetch_all") =>
           /\ {lastRead.result[i] : i \in 1..Len(lastRead.result)} = table
           /\ Len(lastRead.result) = Cardinality(table)
           /\ StrictlyDescending(lastRead.result)

C5_Witness ==
    /\ lastRead # None
    /\ lastRead.op = "fetch_recent"
    /\ lastRead.arg = 1
    /\ Cardinality(table) = 2
    /\ Len(lastRead.result) = 1
    /\ lastRead.result[1].id = 2

\* C6: get_summary or get_counts_by_class called twice in a row, with no
\* insert between, returns the same result, and a read leaves the store as
\* it was.
C6_ReadsIdempotent ==
    [][(/\ lastRead # None
        /\ lastRead' # None
        /\ lastRead'.op \in {"get_summary", "get_counts_by_class"})
       => /\ table' = table
          /\ seqno' = seqno
          /\ lastRead'.op = lastRead.op => lastRead'.result = lastRead.result]_vars

C6_Witness ==
    /\ lastRead # None
    /\ lastRead.op = "get_counts_by_class"
    /\ lastRead.nth = 2
    /\ \E r \in table : ~WellFormed(r)
    /\ \E r \in table : WellFormed(r) /\ DOMAIN RowCounts(r).d # {}

\* C9: under concurrent insert_request calls the ids are distinct, each id is
\* greater than every id committed before it, every returned id is a row, and
\* the table holds one row for each completed insert.
C9_Ids ==
    /\ \A r1, r2 \in table : r1.id = r2.id => r1 = r2
    /\ \A c \in Callers :
           (pending[c] # None /\ pending[c] \notin table) =>
               \A r \in table : pending[c].id > r.id
    /\ Cardinality(returned) = completed
    /\ returned \subseteq Ids
    /\ NoneCommittedUnreturned => Cardinality(table) = completed

C9_Witness ==
    \E c1, c2 \in Clients :
        /\ pc[c1] = "return"
        /\ pc[c2] = "commit"
        /\ pending[c2].id = 2
        /\ pending[c1].id = 1

\* --------------------------------------------- properties of the pipeline
RowsBy(r) == {row \in table : row.by = r}

\* C1: every record the pipeline has persisted has total_count = the sum of
\* its counts, and no key of counts outside the allow-list, whatever labels
\* the detector reported.
C1_PersistedCounts ==
    \A row \in table :
        row.by \in Requests =>
            /\ WellFormed(row)
            /\ DOMAIN RowCounts(row).d \subseteq FRUIT_CLASSES
            /\ row.total_count
                   = CountOf(row, "apple") + CountOf(row, "banana") + CountOf(row, "orange")

C1_Witness ==
    \E row \in table :
        /\ row.by \in Requests
        /\ pc[row.by] = "done"
        /\ CountOf(row, "apple") = 2
        /\ row.total_count = 2

ValidationErrors == {"bad_ext", "too_big", "not_image"}

\* C7: a request rejected by validation ends with an error message (not with
\* an exception), no record is inserted for it and no staged upload of it is
\* left on disk.
C7_RejectedClean ==
    \A r \in Requests :
        err[r] \in ValidationErrors =>
            /\ pc[r] # "failed"
            /\ RowsBy(r) = {}
            /\ pending[r] = None
            /\ r \notin uploads

C7_Witness ==
    \E r1, r2 \in Requests :
        /\ pc[r1] = "done"
        /\ err[r1] = "not_image"
        /\ pc[r2] = "done"
        /\ err[r2] = "bad_ext"

\* C8 (the claim as stated): when detection fails for a validated request, no
\* record exists for it and its staged upload has been removed when the
\* request ends.
C8_FailedClean ==
    \A r \in Requests :
        pc[r] = "failed" => (RowsBy(r) = {} /\ r \notin uploads)

\* C10 (the claim as stated): each lazily initialised value of the detector
\* module is initialised at most once, whatever the interleaving of the
\* callers that find it unset.
C10_InitOnce ==
    /\ nInit.model <= 1
    /\ nInit.ids <= 1
    /\ nInit.sup <= 1

\* ------------------------------------------- properties of the combined read
\* The tasks whose _build_context (or generate_report) has made its three
\* reads.
ReadsDone(t) == pc[t] \in {"sup", "sup_init", "built"}

\* The three reads of ctx are the values of the three queries on the store S.
SnapshotOf(c, S) ==
    /\ c.summary = get_summary(S)
    /\ c.counts_by_class = get_counts_by_class(S).totals
    /\ c.recent = fetch_recent(10, S)

\* C11 (the claim as stated): the summary, counts_by_class and recent that
\* _build_context returns are the values of the three queries on one and the
\* same set of committed records, whatever inserts run concurrently.
C11_Snapshot ==
    \A t \in Requests \cup Views :
        ReadsDone(t) => \E S \in SUBSET table : SnapshotOf(ctx[t], S)

\* ------------------------------------------ the state machine of a request
\* Where a request is in Received -> Validated -> Detected -> Persisted ->
\* Completed, Rejected, Failed.
Stage(r) ==
    CASE pc[r] = "failed" -> "Failed"
      [] err[r] # "none" -> "Rejected"
      [] pc[r] \in {"new", "read", "verify"} -> "Received"
      [] pc[r] \in {"load", "load_init", "ids", "ids_init", "infer", "inferring"} -> "Validated"
      [] pc[r] \in {"count", "save", "insert", "commit"} -> "Detected"
      [] pc[r] = "done" -> "Completed"
      [] OTHER -> "Persisted"

StageSteps ==
    { <<"Received", "Validated">>, <<"Validated", "Detected">>,
      <<"Detected", "Persisted">>, <<"Persisted", "Completed">>,
      <<"Received", "Rejected">>, <<"Validated", "Failed">> }

StageInv(r) ==
    /\ Cardinality(RowsBy(r)) <= 1
    /\ RowsBy(r) # {} <=> Stage(r) \in {"Persisted", "Completed"}
    /\ pending[r] # None => pc[r] \in {"commit", "return"}
    /\ Stage(r) = "Completed" => Cardinality(RowsBy(r)) = 1
    /\ Stage(r) = "Persisted" =>
           \A row \in RowsBy(r) :
               /\ row.filename = upload[r].name
               /\ row.total_count = res[r].total
               /\ RowCounts(row) = AsPyDict(res[r].counts)

StageStep(r) ==
    /\ Stage(r)' = Stage(r) \/ <<Stage(r), Stage(r)'>> \in StageSteps
    /\ pc[r] \in {"failed", "done"} =>
           /\ pc'[r] = pc[r]
           /\ err'[r] = err[r]
           /\ RowsBy(r)' = RowsBy(r)
    /\ Stage(r) = "Rejected" => RowsBy(r)' = {} /\ pending'[r] = None /\ res'[r] = None

\* C12: each request goes Received -> Validated -> Detected -> Persisted ->
\* Completed, or leaves by Received -> Rejected or Validated -> Failed; its
\* record is inserted at most once, only after its own validation and
\* detection, a completed request has exactly one record, and nothing runs
\* for a request after it has failed.
C12_StateMachine ==
    /\ [](\A r \in Requests : StageInv(r))
    /\ [][\A r \in Requests : StageStep(r)]_vars

C12_Witness ==
    \E r1, r2 \in Requests :
        /\ Stage(r1) = "Completed"
        /\ Cardinality(RowsBy(r1)) = 1
        /\ Stage(r2) = "Failed"

\* ------------------------------------------------- failures of the detector
\* A step in which the request r fails.
Fails(r) == pc[r] # "failed" /\ pc'[r] = "failed"

\* C13: a detection failure is local to its request: the failing step leaves
\* the detector module's globals and every other request as they were, and a
\* later request again loads the detector when it is not loaded, calls it, and
\* can succeed in both.
C13_FailureLocal ==
    /\ [][\A r \in Requests :
            Fails(r) =>
                /\ UNCHANGED detVars
                /\ \A q \in Requests \ {r} :
                       /\ pc'[q] = pc[q]
                       /\ err'[q] = err[q]
                       /\ res'[q] = res[q]]_vars
    /\ [](\A r \in Requests :
            (\E q \in Requests : pc[q] = "failed") =>
                /\ (pc[r] = "load" /\ mdl = None) =>
                       ENABLED (LoadCheck(r) /\ pc'[r] = "load_init")
                /\ pc[r] = "load_init" => ENABLED (LoadInit(r) /\ mdl' # None)
                /\ pc[r] = "infer" => ENABLED (InferCall(r) /\ pc'[r] = "inferring")
                /\ pc[r] = "inferring" => ENABLED (InferReturn(r) /\ pc'[r] = "count"))

C13_Witness ==
    \E r1, r2 \in Requests :
        /\ pc[r1] = "failed"
        /\ pc[r2] = "save"
        /\ nInit.model = 1
        /\ res[r2].total = 2

\* ---------------------------------------------------- the persisted records
\* C14: no step of the system changes a field of a persisted record or
\* removes it: every record of the table is in the table after the step, and
\* no other record has taken its id.
C14_RecordsImmutable ==
    [][/\ table \subseteq table'
       /\ \A old \in table : \A new \in table' : new.id = old.id => new = old]_vars

C14_Witness ==
    \E v \in Views :
        /\ pc[v] = "built"
        /\ ctx[v].handler = "report"
        /\ ctx[v].summary.total_requests = 1
        /\ Len(ctx[v].recent) = 2
        /\ \E r \in Requests : pc[r] = "done" /\ RowsBy(r) # {}

\* --------------------------------------------------- the call of the detector
\* The boxes of cls whose lower-cased class name is key.
BoxesOf(names, cls, key) == {i \in 1..Len(cls) : KeyOf(names, cls[i]) = key}

\* C15: run_detection calls the detector restricted to the resolved class ids
\* exactly when there are some, and unrestricted otherwise; the returned
\* boxes are then counted by lower-cased class name, each box of an
\* allow-listed class once and no other box.
C15_DetectorCall ==
    \A r \in Requests :
        /\ pc[r] \in {"inferring", "count", "save"} =>
               /\ fruit_class_ids.ids = FruitIds(mdl.names)
               /\ res[r].classes # None <=> fruit_class_ids.ids # {}
               /\ res[r].classes # None => res[r].classes.ids = fruit_class_ids.ids
        /\ pc[r] = "save" =>
               /\ DOMAIN res[r].counts
                      = {k \in FRUIT_CLASSES : BoxesOf(mdl.names, res[r].cls, k) # {}}
               /\ \A k \in DOMAIN res[r].counts :
                      res[r].counts[k] = Cardinality(BoxesOf(mdl.names, res[r].cls, k))
               /\ res[r].total
                      = Cardinality({i \in 1..Len(res[r].cls) :
                                       KeyOf(mdl.names, res[r].cls[i]) \in FRUIT_CLASSES})

C15_Witness ==
    \E r \in Requests :
        /\ pc[r] = "save"
        /\ fruit_class_ids.ids = {}
        /\ res[r].classes = None
        /\ res[r].cls = <<1, UnknownId>>
        /\ res[r].counts = EmptyMap

\* ------------------------------------------------------------- acceptance
\* What the specification accepts: an extension of the allow-list in any
\* case, at most 20 MiB, bytes that verify as an image.
Acceptable(u) ==
    /\ u.name # NoName
    /\ Lower(Suffix(u.name)) \in {".jpg", ".jpeg", ".png"}
    /\ u.size <= 20 * 1024 * 1024
    /\ u.valid

\* C16: an upload goes on to detection if and only if its extension is in
\* the allow-list (case-insensitively), it has at most 20*1024*1024 bytes and
\* it verifies as an image; every other request gets an error, no record and
\* no call of the detector (.gif and .GIF are rejected, .PNG is not).
C16_Acceptance ==
    \A r \in Requests :
        /\ Stage(r) \in {"Validated", "Detected", "Persisted"} =>
               Acceptable(upload[r]) /\ err[r] = "none"
        /\ Stage(r) = "Rejected" =>
               /\ ~Acceptable(upload[r])
               /\ RowsBy(r) = {}
               /\ pending[r] = None
               /\ res[r] = None
        /\ upload[r].name \in {"anim.gif", "anim.GIF"} => err[r] = "bad_ext"
        /\ upload[r].name = "photo.PNG" => err[r] # "bad_ext"
        /\ upload[r].size > 20 * 1024 * 1024 => err[r] = "too_big"
        /\ (err[r] = "too_big" /\ pc[r] # "done") => upload[r].size > 20 * 1024 * 1024
        /\ err[r] = "not_image" =>
               upload[r].size <= 20 * 1024 * 1024 /\ ~upload[r].valid

C16_Witness ==
    \E r1, r2 \in Requests :
        /\ \E row \in RowsBy(r1) : row.filename = "photo.PNG"
        /\ pc[r2] = "ctx_recent"
        /\ upload[r2].name = "anim.GIF"
        /\ err[r2] = "bad_ext"
        /\ ctx[r2].summary.total_requests = 1

\* ----------------------------------------------------- the critical section
\* C17 (the claim as stated): at most one call of the detector is executing
\* at any time, and while it executes another request can still take its
\* validation steps (the handler's start with the extension check, the size
\* check and staging after the upload is read) and its persistence steps.
C17_InferenceSerialized ==
    \A r1, r2 \in Requests :
        (r1 # r2 /\ pc[r1] = "inferring") =>
            /\ pc[r2] # "inferring"
            /\ pc[r2] = "new" => ENABLED Start(r2)
            /\ pc[r2] = "read" => ENABLED ReadUpload(r2)
            /\ pc[r2] = "verify" => ENABLED Verify(r2)
            /\ pc[r2] = "insert" => ENABLED ReqInsert(r2)

\* ------------------------------------------------- the limit of fetch_recent
Max(a, b) == IF a > b THEN a ELSE b

\* C18 (the claim as stated): for every integer limit, zero and negative ones
\* included, fetch_recent returns at most max(limit, 0) records, and returns
\* all the records of a non-empty store only when they are no more than limit.
C18_LimitExact ==
    (lastRead # None /\ lastRead.op = "fetch_recent") =>
        /\ Len(lastRead.result) <= Max(lastRead.arg, 0)
        /\ (table # {} /\ Len(lastRead.result) = Cardinality(table)) =>
               Cardinality(table) <= lastRead.arg

\* ------------------------------------------------------- the two aggregates
\* No insert_request is between its INSERT and its return.
Quiescent == dbWriter = 0 /\ \A c \in Callers : pending[c] = None

AggregatesAgree(summary, totals) ==
    /\ summary.total_fruits = SumValues(totals)
    /\ \A k \in DOMAIN totals : totals[k] >= 1

\* C19: with no insert in progress and only records of the pipeline in the
\* store, total_fruits of get_summary is the sum of the values of
\* get_counts_by_class, and every class of get_counts_by_class has a total of
\* at least 1; so for the two reads a process_image request makes in a row.
C19_AggregatesAgree ==
    /\ Quiescent =>
           /\ get_counts_by_class(table).exc = "none"
           /\ AggregatesAgree(get_summary(table), get_counts_by_class(table).totals)
    /\ \A r \in Requests :
           pc[r] \in {"ctx_recent", "sup", "sup_init"} =>
               /\ Quiescent
               /\ ctx[r].summary = get_summary(table)
               /\ AggregatesAgree(ctx[r].summary, ctx[r].counts_by_class)

C19_Witness ==
    \E r \in Requests :
        /\ pc[r] = "ctx_recent"
        /\ Cardinality(table) = 2
        /\ \E row \in table : row.total_count = 0
        /\ ctx[r].summary.total_fruits = 2
        /\ ctx[r].counts_by_class = ("apple" :> 2)

\* ------------------------------------------------- get_supported_fruits
\* The callers that pass allow_load=False: index, and process_image on its
\* error paths.
NoLoadCaller(t) == t \in Views \/ err[t] # "none"

\* A step of t inside get_supported_fruits, and one in which the call returns.
SupStep(t) == pc[t] \in {"sup", "sup_init"} /\ pc'[t] # pc[t]
SupReturns(t) == SupStep(t) /\ pc'[t] # "sup_init"

\* C20: get_supported_fruits(allow_load=False) never loads the detector:
\* while the detector is not loaded it returns an empty list and leaves _model
\* and _supported unset; called with the detector loaded it returns the
\* sorted supported names of the detector; once _supported is set, every call
\* returns it and nothing changes it.
C20_NoLoad ==
    [][\A t \in Requests \cup Views :
         /\ (SupStep(t) /\ NoLoadCaller(t)) =>
                /\ nInit'.model = nInit.model
                /\ mdl' = mdl
         /\ (SupStep(t) /\ NoLoadCaller(t) /\ mdl = None) =>
                /\ SupReturns(t)
                /\ supported_fruits' = EmptyList
                /\ supported = None /\ supported' = None
         /\ (SupReturns(t) /\ mdl' # None) =>
                /\ supported' = [t |-> "list", names |-> SupportedOf(mdl'.names)]
                /\ supported_fruits' = supported'
         /\ supported # None => supported' = supported]_vars

C20_Witness ==
    /\ supported_fruits = EmptyList
    /\ mdl = None
    /\ supported = None
    /\ nInit.model = 0
    /\ \E r \in Requests : pc[r] = "done" /\ err[r] = "bad_ext"
    /\ \E r \in Requests : pc[r] = "failed"

====
